---- MODULE Spec2Model ----
(***************************************************************************)
(* Brent oil price change-point analysis: the dashboard backend (app.py),  *)
(* which runs the pipeline once at import and serves the stored result,    *)
(* and the library entry point (train_model.py), over load_data,           *)
(* preprocess_data and build_bcp_model.                                    *)
(*                                                                         *)
(* Calendar dates are day numbers (integers); a pandas DataFrame is a      *)
(* record [index, rows] whose rows are records keyed by column name (the   *)
(* index value is kept in the row under the index's name); a message is a  *)
(* sequence of text fragments, so that an f-string is a concatenation.     *)
(***************************************************************************)
EXTENDS Integers, Sequences, FiniteSets, TLC

\* ------------------------------------------------------------------ bounds
MaxPrices == 5
MaxEvents == 2
MaxDraws == 3
MaxSpread == 1
MaxRequests == 2
MaxSpoiled == 3

\* ------------------------------------------------------- program constants
WindowDays == 30

PRICES_FILE_PATH == "data/raw/BrentOilPrices.csv"
EVENTS_FILE_PATH == "data/raw/events.csv"

\* ----------------------------------------------------------------- helpers
RECURSIVE SumSeq(_)
SumSeq(s) == IF s = <<>> THEN 0 ELSE Head(s) + SumSeq(Tail(s))

RECURSIVE FlatMap(_, _)
FlatMap(F(_), s) == IF s = <<>> THEN <<>> ELSE F(Head(s)) \o FlatMap(F, Tail(s))

MapSeq(F(_), s) == [i \in 1..Len(s) |-> F(s[i])]

\* insert row r after every row whose Date is <= r.Date (stable)
RECURSIVE InsertByDate(_, _)
InsertByDate(r, s) ==
    IF s = <<>> THEN <<r>>
    ELSE IF Head(s).Date <= r.Date THEN <<Head(s)>> \o InsertByDate(r, Tail(s))
    ELSE <<r>> \o s

RECURSIVE SortByDateFrom(_, _)
SortByDateFrom(acc, s) ==
    IF s = <<>> THEN acc ELSE SortByDateFrom(InsertByDate(Head(s), acc), Tail(s))

\* rows ordered ascending by their Date column, equal dates in input order
SortByDate(s) == SortByDateFrom(<<>>, s)

NaN == "NaN"
NaNReturn == [kind |-> "nan", num |-> 0, den |-> 0]

\* np.log(price / previous price) in IEEE arithmetic; prev = NaN for the
\* first row after shift(1).  A finite result is kept as the pair it is the
\* logarithm of.
LogReturn(price, prev, hasPrev) ==
    IF ~hasPrev THEN NaNReturn
    ELSE IF prev = 0 THEN
        (IF price > 0 THEN [kind |-> "inf", num |-> price, den |-> prev]
         ELSE NaNReturn)                       \* 0/0 = nan, -x/0 = -inf, log(-inf) = nan
    ELSE IF price = 0 THEN [kind |-> "-inf", num |-> price, den |-> prev]
    ELSE IF (price > 0) # (prev > 0) THEN NaNReturn    \* log of a negative ratio
    ELSE [kind |-> "ln", num |-> price, den |-> prev]

\* A Timestamp is its day number.  Timestamp.strftime('%Y-%m-%d') gives a
\* string, which pd.to_datetime parses back to a Timestamp.
Strftime(ts) == [ymd |-> ts]
ParseDate(str) == str.ymd

NoException == [kind |-> "none", type |-> "none", msg |-> <<>>]
EmptyFrame == [index |-> "RangeIndex", rows |-> <<>>]

\* ------------------------------------------------- data_loader.load_data
FileNotFoundError(text, path) ==
    [kind |-> "DataError", type |-> "FileNotFoundError", msg |-> <<text, path>>]

\* variant: the events file is looked for before the price file
load_data_EventsFirst(prices_path, events_path, pf, ef) ==
    IF ~ef.exists THEN
        [raised |-> FileNotFoundError("Events data file not found at: ", events_path),
         prices_df |-> EmptyFrame, events_df |-> EmptyFrame, reads |-> 0]
    ELSE IF ~pf.exists THEN
        [raised |-> FileNotFoundError("Price data file not found at: ", prices_path),
         prices_df |-> EmptyFrame, events_df |-> EmptyFrame, reads |-> 0]
    ELSE
        [raised |-> NoException,
         prices_df |-> [index |-> "RangeIndex", rows |-> SortByDate(pf.rows)],
         events_df |-> [index |-> "RangeIndex", rows |-> ef.rows],
         reads |-> 2]

\* [raised, prices_df, events_df, reads]: reads counts the pd.read_csv calls
load_data(prices_path, events_path, pf, ef) ==
    IF ~pf.exists THEN
        [raised |-> FileNotFoundError("Price data file not found at: ", prices_path),
         prices_df |-> EmptyFrame, events_df |-> EmptyFrame, reads |-> 0]
    ELSE IF ~ef.exists THEN
        [raised |-> FileNotFoundError("Events data file not found at: ", events_path),
         prices_df |-> EmptyFrame, events_df |-> EmptyFrame, reads |-> 0]
    ELSE
        [raised |-> NoException,
         prices_df |-> [index |-> "RangeIndex", rows |-> SortByDate(pf.rows)],
         events_df |-> [index |-> "RangeIndex", rows |-> ef.rows],
         reads |-> 2]

\* ------------------------------------------- preprocessor.preprocess_data
\* prices_df['Log_Returns'] = np.log(prices_df['Price'] / prices_df['Price'].shift(1))
WithLogReturns(rows) ==
    [i \in 1..Len(rows) |->
        [Date |-> rows[i].Date, Price |-> rows[i].Price,
         Log_Returns |-> LogReturn(rows[i].Price,
                                   IF i > 1 THEN rows[i-1].Price ELSE 0, i > 1)]]

NotNaNReturn(r) == r.Log_Returns.kind # "nan"

\* events_df.rename(columns={'Approximate_Date': 'Date'})
RenameEvent(e) ==
    [Date |-> e.Approximate_Date, Event_Name |-> e.Event_Name,
     Description |-> e.Description]

\* prices_df.merge(events_df, how='left', left_index=True, right_on='Date'):
\* one row per matching event, in the events' order; a row without a match
\* is kept once with missing event columns
MergeLeft(rows, events) ==
    LET Joined(r) ==
            LET SameDate(e) == e.Date = r.Date
                hits == SelectSeq(events, SameDate)
                With(e) == [Date |-> r.Date, Price |-> r.Price,
                            Log_Returns |-> r.Log_Returns,
                            Event_Name |-> e.Event_Name,
                            Description |-> e.Description]
            IN  IF hits = <<>>
                THEN <<With([Event_Name |-> NaN, Description |-> NaN])>>
                ELSE MapSeq(With, hits)
    IN  FlatMap(Joined, rows)

\* [['Event_Name', 'Description']].fillna('No Event')
FillNa(r) ==
    [r EXCEPT !.Event_Name = IF @ = NaN THEN "No Event" ELSE @,
              !.Description = IF @ = NaN THEN "No Event" ELSE @]

\* [prices_df, events_df, ret]: the two arguments as the call leaves them
\* (they are modified in place) and the returned frame
preprocess_data(prices_df, events_df) ==
    LET kept == SelectSeq(WithLogReturns(prices_df.rows), NotNaNReturn)
        events == MapSeq(RenameEvent, events_df.rows)
        merged == MapSeq(FillNa, MergeLeft(kept, events))
    IN  [prices_df |-> [index |-> "Date", rows |-> kept],
         events_df |-> [index |-> events_df.index, rows |-> events],
         ret |-> [index |-> "Date", rows |-> SortByDate(merged)]]

\* ------------------------------------------------ the sampler (pm.sample)
\* What one call of pm.sample on a model over M observations may give: an
\* exception, or the tau values of the draws of all chains.  The set is
\* that of a substituted sampler as well, so draws may lie one step outside
\* the prior's range [0, M-1] on either side.  Draws are listed in
\* non-decreasing order (only their sum and number are used) and lie within
\* MaxSpread of each other.
RECURSIVE DrawSeqs(_, _)
DrawSeqs(vals, n) ==
    IF n = 0 THEN {<<>>}
    ELSE LET shorter == DrawSeqs(vals, n - 1)
             After(d) == {w \in vals : n > 1 => (d[n - 1] <= w /\ w <= d[1] + MaxSpread)}
         IN  shorter \cup
             UNION {{Append(d, v) : v \in After(d)} :
                        d \in {x \in shorter : Len(x) = n - 1}}

NaNToIntegerMsg == <<"cannot convert float NaN to integer">>

SamplerErrors ==
    {[kind |-> "InferenceFailure", type |-> "SamplingError",
      msg |-> <<"Initial evaluation of model at starting point failed!">>],
     [kind |-> "InferenceFailure", type |-> "ValueError", msg |-> NaNToIntegerMsg]}

SamplerOutcomes(M) ==
    {[raised |-> e, tau |-> <<>>] : e \in SamplerErrors}
    \cup {[raised |-> NoException, tau |-> d] :
             d \in DrawSeqs((0 - 1)..M, MaxDraws)}

NotSampled == [raised |-> NoException, tau |-> <<>>]

\* ----------------------------------------------------- point estimates
\* np.round of sum/n: to the nearest integer, a tie to the even neighbour
RoundHalfEven(sum, n) ==
    LET q == sum \div n
        r == sum % n
    IN  IF 2 * r < n THEN q
        ELSE IF 2 * r > n THEN q + 1
        ELSE IF q % 2 = 0 THEN q ELSE q + 1

\* int(sum/n): truncation toward zero
TruncToInt(sum, n) ==
    LET q == sum \div n
    IN  IF sum < 0 /\ sum % n # 0 THEN q + 1 ELSE q

\* variant: the position is taken one-based
tau_post_mean_idx_OneBased(draws) == RoundHalfEven(SumSeq(draws), Len(draws)) + 1

\* app.py: int(np.round(trace.posterior['tau'].mean().item()))
tau_post_mean_idx(draws) == RoundHalfEven(SumSeq(draws), Len(draws))

\* train_model.py: int(np.mean(tau_samples))
tau_mean(draws) == TruncToInt(SumSeq(draws), Len(draws))

ValueErrorNaN ==
    [kind |-> "ExtractionError", type |-> "ValueError", msg |-> NaNToIntegerMsg]

IndexError(k, size) ==
    [kind |-> "ExtractionError", type |-> "IndexError",
     msg |-> <<"index ", ToString(k), " is out of bounds for axis 0 with size ",
               ToString(size)>>]

\* dates[k] on a pandas Index: a negative k counts from the end
InRange(k, size) == (0 - size) <= k /\ k < size
GetItem(dates, k) == IF k < 0 THEN dates[Len(dates) + k + 1] ELSE dates[k + 1]

\* the index of preprocessed_df['Log_Returns'].dropna()
ReturnDates(frame) ==
    LET kept == SelectSeq(frame.rows, NotNaNReturn)
    IN  [i \in 1..Len(kept) |-> kept[i].Date]

\* variant: the window's ends are left out
InWindow_Exclusive(date, change_point_dt, window) ==
    change_point_dt - window < date /\ date < change_point_dt + window

\* change_point_dt - window <= date <= change_point_dt + window
InWindow(date, change_point_dt, window) ==
    change_point_dt - window <= date /\ date <= change_point_dt + window

\* trace.posterior[var].mean().item() of a continuous parameter: the mean of
\* the sampler's values, which the model does not compute
PosteriorMean(outcome, var) == [mean_of |-> var, draws |-> Len(outcome.tau)]

\* DataFrame.reset_index().rename(columns={'index': 'Date'}).to_dict('records'):
\* a Date index becomes the Date column; the counter of a RangeIndex is
\* renamed to Date and then overwritten by the Date column of the same name
ToRecords(frame) == frame.rows

HasNoNaN(r) == r.Log_Returns.kind # "nan" /\ r.Event_Name # NaN /\ r.Description # NaN

\* {**event, 'Date': pd.to_datetime(event['Date']).strftime('%Y-%m-%d')}
FormatEvent(e) == [e EXCEPT !.Date = Strftime(@)]

\* --------------------------- app.py: run_full_analysis_and_serialize
\* The call's outcome for the files pf, ef and the sampler's answer outcome:
\* ret is the returned dictionary; the other fields record what the call
\* did (the exception caught, the files read, the sampler calls, the length
\* of the series the model was built on) and its locals when it returned.
AnalysisError(e) == [error |-> <<"Failed to run analysis: ">> \o e.msg]

RunFailed(e, loaded, pre, sampled, outcome, M, tau) ==
    [ret |-> AnalysisError(e), raised |-> e, reads |-> loaded.reads,
     tau_post_mean_idx |-> tau,
     sample_calls |-> IF sampled THEN 1 ELSE 0,
     model_len |-> M,
     prices_raw_df |-> pre.prices_df, events_raw_df |-> pre.events_df,
     preprocessed_df |-> pre.ret, trace |-> outcome]

NotBuilt == 0 - 1
NoTau == NotBuilt

run_full_analysis_and_serialize(pf, ef, outcome) ==
    LET loaded == load_data(PRICES_FILE_PATH, EVENTS_FILE_PATH, pf, ef)
    IN  IF loaded.raised # NoException
        THEN RunFailed(loaded.raised, loaded,
                       [prices_df |-> EmptyFrame, events_df |-> EmptyFrame,
                        ret |-> EmptyFrame], FALSE, NotSampled, NotBuilt, NoTau)
        ELSE
    LET pre == preprocess_data(loaded.prices_df, loaded.events_df)
        dates == ReturnDates(pre.ret)
        M == Len(dates)
    IN  IF outcome.raised # NoException
        THEN RunFailed(outcome.raised, loaded, pre, TRUE, outcome, M, NoTau)
        ELSE IF outcome.tau = <<>>
        THEN RunFailed(ValueErrorNaN, loaded, pre, TRUE, outcome, M, NoTau)
        ELSE
    LET tau == tau_post_mean_idx(outcome.tau)
    IN  IF ~InRange(tau, M)
        THEN RunFailed(IndexError(tau, M), loaded, pre, TRUE, outcome, M, tau)
        ELSE
    LET change_point_date == Strftime(GetItem(dates, tau))
        change_point_dt == ParseDate(change_point_date)
        Near(event) == InWindow(event.Date, change_point_dt, WindowDays)
        relevant_events_list == SelectSeq(pre.events_df.rows, Near)
    IN  [ret |-> [prices_raw |-> ToRecords(pre.prices_df),
                  preprocessed_data |-> SelectSeq(ToRecords(pre.ret), HasNoNaN),
                  model_results |->
                      [change_point_date |-> change_point_date,
                       mu_1_post |-> PosteriorMean(outcome, "mu_1"),
                       mu_2_post |-> PosteriorMean(outcome, "mu_2"),
                       sigma_1_post |-> PosteriorMean(outcome, "sigma_1"),
                       sigma_2_post |-> PosteriorMean(outcome, "sigma_2")],
                  relevant_events |-> MapSeq(FormatEvent, relevant_events_list)],
         raised |-> NoException, reads |-> loaded.reads, sample_calls |-> 1,
         model_len |-> M, tau_post_mean_idx |-> tau,
         prices_raw_df |-> pre.prices_df, events_raw_df |-> pre.events_df,
         preprocessed_df |-> pre.ret, trace |-> outcome]

\* the length of the series pm.sample would be called on, or NotBuilt
SeriesLength(pf, ef) ==
    LET loaded == load_data(PRICES_FILE_PATH, EVENTS_FILE_PATH, pf, ef)
    IN  IF loaded.raised # NoException THEN NotBuilt
        ELSE Len(ReturnDates(preprocess_data(loaded.prices_df, loaded.events_df).ret))

\* ------------------------------------ train_model.py: get_analysis_results
\* az.summary(trace, var_names=[var])['mean'].values[0]
SummaryMean(outcome, var) == [summary_mean_of |-> var, draws |-> Len(outcome.tau)]

\* DataFrame.to_dict('records') leaves the index out
WithoutIndex(r) == [Price |-> r.Price, Log_Returns |-> r.Log_Returns]

LibraryError(e) ==
    IF e.type = "FileNotFoundError" THEN [error |-> e.msg]
    ELSE [error |-> <<"An unexpected error occurred: ">> \o e.msg]

get_analysis_results(prices_path, events_path, pf, ef, outcome) ==
    LET loaded == load_data(prices_path, events_path, pf, ef)
    IN  IF loaded.raised # NoException THEN LibraryError(loaded.raised) ELSE
    LET pre == preprocess_data(loaded.prices_df, loaded.events_df)
        prices_raw == pre.prices_df
        events_raw == pre.events_df
        dates == ReturnDates(pre.ret)
    IN  IF outcome.raised # NoException THEN LibraryError(outcome.raised)
        ELSE IF outcome.tau = <<>> THEN LibraryError(ValueErrorNaN)
        ELSE
    LET tau == tau_mean(outcome.tau)
    IN  IF ~InRange(tau, Len(dates))
        THEN LibraryError(IndexError(tau, Len(dates)))
        ELSE
    LET change_point_date == GetItem(dates, tau)
        Near(event) == InWindow(event.Date, change_point_date, WindowDays)
        \* .sort_values(by='Date'): equal dates keep their order for the
        \* short tables of this model
        relevant_events == SortByDate(SelectSeq(events_raw.rows, Near))
    IN  [prices_raw |-> MapSeq(WithoutIndex, prices_raw.rows),
         preprocessed_df |-> ToRecords(pre.ret),
         model_results |->
             [trace |-> outcome,
              tau_mean |-> tau,
              change_point_date |-> Strftime(change_point_date),
              mu_1_post |-> SummaryMean(outcome, "mu_1"),
              sigma_1_post |-> SummaryMean(outcome, "sigma_1"),
              mu_2_post |-> SummaryMean(outcome, "mu_2"),
              sigma_2_post |-> SummaryMean(outcome, "sigma_2"),
              tau_samples |-> outcome.tau],
         events_raw |-> events_raw.rows,
         relevant_events |-> relevant_events]

\* ------------------------------------------------------------- inputs
Rotate(s, k) == SubSeq(s, k + 1, Len(s)) \o SubSeq(s, 1, k)

\* N records on the consecutive days 0..N-1 with positive prices
Ascending(N) == [i \in 1..N |-> [Date |-> i - 1, Price |-> 10 + i]]
Descending(N) == [i \in 1..N |-> Ascending(N)[N + 1 - i]]

\* the same records in other file orders
Orders(N) ==
    {Ascending(N), Descending(N)}
    \cup (IF N > 1 THEN {Rotate(Ascending(N), 1), Rotate(Descending(N), 1)} ELSE {})

\* one price of the ascending table made zero or negative
Spoiled(N) ==
    {[Ascending(N) EXCEPT ![k].Price = v] : k \in 1..N, v \in {0, 0 - 10}}

PriceTables ==
    UNION {Orders(N) : N \in 0..MaxPrices} \cup UNION {Spoiled(N) : N \in 0..MaxSpoiled}

\* event days: 30 days before day 1 (31 before day 2), a price day, and
\* 30 days after day 2 (31 after day 1)
EventDates == {1 - WindowDays, 2, 2 + WindowDays}

EventNames == <<"e1", "e2", "e3", "e4">>
Descriptions == <<"d1", "d2", "d3", "d4">>

RECURSIVE Catalogs(_)
Catalogs(n) ==
    IF n = 0 THEN {<<>>}
    ELSE LET shorter == Catalogs(n - 1)
         IN  shorter \cup
             {Append(c, [Approximate_Date |-> d, Event_Name |-> EventNames[n],
                         Description |-> Descriptions[n]]) :
                 c \in {x \in shorter : Len(x) = n - 1}, d \in EventDates}

MissingFile == [exists |-> FALSE, rows |-> <<>>]
File(rows) == [exists |-> TRUE, rows |-> rows]

PriceFiles == {MissingFile} \cup {File(t) : t \in PriceTables}
EventFiles == {MissingFile} \cup {File(c) : c \in Catalogs(MaxEvents)}

\* ---------------------------------------------------------------- state
VARIABLES
    program,        \* which script runs: "app" or "train_model"
    pc,             \* "import" while the module body runs, then "serving" / "exited"
    prices_file,    \* data/raw/BrentOilPrices.csv
    events_file,    \* data/raw/events.csv
    analysis_data,  \* app.py's global dictionary
    run,            \* what the call of run_full_analysis_and_serialize did
    responses,      \* the responses of GET /api/all_data so far
    results         \* train_model.py: the dictionary get_analysis_results returned

vars == <<program, pc, prices_file, events_file, analysis_data, run, responses, results>>

EmptyDict == <<>>

NotRun ==
    [ret |-> EmptyDict, raised |-> NoException, reads |-> 0, sample_calls |-> 0,
     model_len |-> NotBuilt, tau_post_mean_idx |-> NoTau,
     prices_raw_df |-> EmptyFrame,
     events_raw_df |-> EmptyFrame, preprocessed_df |-> EmptyFrame,
     trace |-> NotSampled]

Init ==
    /\ program \in {"app", "train_model"}
    /\ pc = "import"
    /\ prices_file \in PriceFiles
    /\ events_file \in EventFiles
    /\ analysis_data = EmptyDict
    /\ run = NotRun
    /\ responses = <<>>
    /\ results = EmptyDict

\* what pm.sample may answer in this run: nothing when it is not reached
Answers ==
    LET M == SeriesLength(prices_file, events_file)
    IN  IF M = NotBuilt THEN {NotSampled} ELSE SamplerOutcomes(M)

\* app.py, module level: the analysis runs once while the module is imported
StartupError(msg) == [error |-> <<"Failed to initialize analysis on startup: ">> \o msg]

Startup ==
    /\ program = "app"
    /\ pc = "import"
    /\ \E outcome \in Answers :
         LET r == run_full_analysis_and_serialize(prices_file, events_file, outcome)
         IN  /\ run' = r
             /\ analysis_data' = IF "error" \in DOMAIN r.ret
                                  THEN StartupError(r.ret.error)
                                  ELSE r.ret
    /\ pc' = "serving"
    /\ UNCHANGED <<program, prices_file, events_file, responses, results>>

\* variant: requests are taken while the module body still runs
Accepting_DuringImport == TRUE

\* the server takes requests once the module is imported (app.run / WSGI)
Accepting == pc = "serving"

\* flask.jsonify
Jsonify(d) == [json |-> d]

\* variant: a request runs the sampler again
get_all_data_Recompute ==
    /\ program = "app"
    /\ Accepting
    /\ Len(responses) < MaxRequests
    /\ run' = [run EXCEPT !.sample_calls = @ + 1]
    /\ responses' = Append(responses,
                            IF "error" \in DOMAIN analysis_data
                            THEN [status |-> 500, body |-> Jsonify(analysis_data)]
                            ELSE [status |-> 200, body |-> Jsonify(analysis_data)])
    /\ UNCHANGED <<program, pc, prices_file, events_file, analysis_data, results>>

\* variant: the error branch answers without a status, which Flask sends as 200
get_all_data_Always200 ==
    /\ program = "app"
    /\ Accepting
    /\ Len(responses) < MaxRequests
    /\ responses' = Append(responses, [status |-> 200, body |-> Jsonify(analysis_data)])
    /\ UNCHANGED <<program, pc, prices_file, events_file, analysis_data, run, results>>

\* variant: the handler takes the error out of the dictionary once it has
\* reported it
get_all_data_PopError ==
    /\ program = "app"
    /\ Accepting
    /\ Len(responses) < MaxRequests
    /\ responses' = Append(responses,
                            IF "error" \in DOMAIN analysis_data
                            THEN [status |-> 500, body |-> Jsonify(analysis_data)]
                            ELSE [status |-> 200, body |-> Jsonify(analysis_data)])
    /\ analysis_data' = IF "error" \in DOMAIN analysis_data
                         THEN EmptyDict
                         ELSE analysis_data
    /\ UNCHANGED <<program, pc, prices_file, events_file, run, results>>

\* GET /api/all_data
get_all_data ==
    /\ program = "app"
    /\ Accepting
    /\ Len(responses) < MaxRequests
    /\ responses' = Append(responses,
                            IF "error" \in DOMAIN analysis_data
                            THEN [status |-> 500, body |-> Jsonify(analysis_data)]
                            ELSE [status |-> 200, body |-> Jsonify(analysis_data)])
    /\ UNCHANGED <<program, pc, prices_file, events_file, analysis_data, run, results>>

\* train_model.py run as a script: results = get_analysis_results(...)
TrainModelMain ==
    /\ program = "train_model"
    /\ pc = "import"
    /\ \E outcome \in Answers :
         /\ results' = get_analysis_results(PRICES_FILE_PATH, EVENTS_FILE_PATH,
                                             prices_file, events_file, outcome)
         /\ run' = [run EXCEPT !.trace = outcome]
    /\ pc' = "exited"
    /\ UNCHANGED <<program, prices_file, events_file, analysis_data, responses>>

Next == Startup \/ get_all_data \/ TrainModelMain

Spec == Init /\ [][Next]_vars

\* ================================================================ claims
AppServing == program = "app" /\ pc = "serving"
Ready == AppServing /\ run.raised = NoException
Failed == AppServing /\ run.raised # NoException

Contains(msg, text) == \E i \in DOMAIN msg : msg[i] = text

ResultKeys == {"prices_raw", "preprocessed_data", "relevant_events", "model_results"}
ModelResultKeys ==
    {"change_point_date", "mu_1_post", "mu_2_post", "sigma_1_post", "sigma_2_post"}

CompleteResult(d) ==
    DOMAIN d = ResultKeys /\ DOMAIN d.model_results = ModelResultKeys
ErrorOnly(d) == DOMAIN d = {"error"}

\* C1: in the service process the sampler is invoked at most once; it has
\* been invoked exactly once whenever the data were loaded, however many
\* requests were answered and also when the sampler raised (no retry).
C1_ComputeOnce ==
    program = "app" =>
        /\ run.sample_calls <= 1
        /\ (pc = "serving" /\ run.reads > 0) => run.sample_calls = 1

C1_Witness ==
    /\ AppServing /\ Len(responses) >= 2
    /\ run.sample_calls = 1 /\ run.raised.kind = "InferenceFailure"

\* C2: the body of every response, and the published state while requests
\* are taken, is a complete result or a dictionary with the one key 'error';
\* never the empty dictionary, a partial result, or both kinds of key.
C2_CompleteOrError ==
    /\ \A i \in DOMAIN responses :
          LET d == responses[i].body.json
          IN  CompleteResult(d) \/ ErrorOnly(d)
    /\ AppServing => (CompleteResult(analysis_data) \/ ErrorOnly(analysis_data))

C2_Witness ==
    /\ Len(responses) >= 2
    /\ CompleteResult(responses[1].body.json)
    /\ responses[1].body.json.relevant_events # <<>>

\* C3: a failed analysis is answered with status 500 and the body
\* {"error": message}; a ready one with status 200 and the full result.
C3_StatusMatchesState ==
    \A i \in DOMAIN responses :
        LET r == responses[i]
        IN  /\ Failed => (r.status = 500 /\ ErrorOnly(r.body.json)
                           /\ r.body.json.error = analysis_data.error)
            /\ Ready => (r.status = 200 /\ r.body.json = run.ret)

C3_Witness ==
    /\ Failed /\ Len(responses) >= 1 /\ responses[1].status = 500

\* C4: with the price file or the events file missing the run fails without
\* reading a file and without a sampler call; the published message names
\* the missing file's path, the price file's when both are missing, and the
\* published dictionary has no model_results.
C4_MissingSourceIsolated ==
    (AppServing /\ (~prices_file.exists \/ ~events_file.exists)) =>
        /\ Failed
        /\ run.reads = 0 /\ run.sample_calls = 0
        /\ ErrorOnly(analysis_data)
        /\ "model_results" \notin DOMAIN analysis_data
        /\ Contains(analysis_data.error,
                     IF ~prices_file.exists THEN PRICES_FILE_PATH ELSE EVENTS_FILE_PATH)
        /\ ~prices_file.exists => ~Contains(analysis_data.error, EVENTS_FILE_PATH)

C4_Witness ==
    /\ AppServing /\ ~prices_file.exists /\ ~events_file.exists
    /\ Len(responses) >= 1

LibraryDone == program = "train_model" /\ pc = "exited"
LibraryReady == LibraryDone /\ "error" \notin DOMAIN results

\* the errors the pipeline's components raise, whatever the input
PipelineErrors ==
    {FileNotFoundError("Price data file not found at: ", PRICES_FILE_PATH),
     FileNotFoundError("Events data file not found at: ", EVENTS_FILE_PATH),
     ValueErrorNaN} \cup SamplerErrors

\* C5: the published error descriptor determines the kind of the error that
\* was raised: no pipeline error of another kind is published as the same
\* descriptor.
C5_KindPreserved ==
    Failed =>
        \A e \in PipelineErrors :
            StartupError(AnalysisError(e).error) = analysis_data
                => e.kind = run.raised.kind

DrawsInRange(d, M) == d # <<>> /\ \A i \in DOMAIN d : 0 <= d[i] /\ d[i] <= M - 1

DateInSeries(date, dates) ==
    /\ dates[1] <= date /\ date <= dates[Len(dates)]
    /\ \E i \in DOMAIN dates : dates[i] = date

\* C6: when every draw of tau lies in [0, M-1], M the length of the series
\* the model was built on, the run succeeds, the tau estimate lies in
\* [0, M-1] and change_point_date is a date of the return series between
\* its first and last date; in the dashboard and in the library pipeline.
C6_IndexValidity ==
    /\ (AppServing /\ run.sample_calls = 1 /\ run.trace.raised = NoException
            /\ DrawsInRange(run.trace.tau, run.model_len)) =>
          /\ Ready
          /\ 0 <= run.tau_post_mean_idx /\ run.tau_post_mean_idx <= run.model_len - 1
          /\ DateInSeries(ParseDate(run.ret.model_results.change_point_date),
                          ReturnDates(run.preprocessed_df))
    /\ (LibraryDone /\ run.trace.raised = NoException
            /\ DrawsInRange(run.trace.tau, SeriesLength(prices_file, events_file))) =>
          /\ LibraryReady
          /\ 0 <= results.model_results.tau_mean
          /\ results.model_results.tau_mean
                 <= SeriesLength(prices_file, events_file) - 1
          /\ \E i \in DOMAIN results.preprocessed_df :
                 results.preprocessed_df[i].Date
                     = ParseDate(results.model_results.change_point_date)

C6_Witness ==
    /\ Ready /\ DrawsInRange(run.trace.tau, run.model_len)
    /\ run.model_len >= 2 /\ run.tau_post_mean_idx = run.model_len - 1
    /\ run.trace.tau[1] # run.trace.tau[Len(run.trace.tau)]

\* t is an integer nearest to the mean of the draws d
Nearest(t, d) ==
    LET diff == Len(d) * t - SumSeq(d)
    IN  2 * diff <= Len(d) /\ 0 - 2 * diff <= Len(d)

\* C7: the tau estimate is an integer nearest to the mean of all draws (draws
\* within the prior's range), in the dashboard pipeline and in the library
\* pipeline.
C7_RoundToNearest ==
    /\ (Ready /\ DrawsInRange(run.trace.tau, run.model_len)) =>
          Nearest(run.tau_post_mean_idx, run.trace.tau)
    /\ (LibraryReady /\ DrawsInRange(results.model_results.tau_samples,
                                      Len(results.preprocessed_df))) =>
          Nearest(results.model_results.tau_mean, results.model_results.tau_samples)

PositivePrices(rows) == \A i \in DOMAIN rows : rows[i].Price > 0
PriceDates(rows) == {rows[i].Date : i \in DOMAIN rows}

\* the k-th date (from 0) of the price dates in ascending order
SortedDate(rows, k) ==
    CHOOSE d \in PriceDates(rows) :
        Cardinality({x \in PriceDates(rows) : x < d}) = k

\* C8: for N >= 2 positive prices on distinct dates, in any file order and
\* with any event catalog, the series handed to the model has N-1 entries,
\* dated with the ascending price dates without the first.
C8_ReturnSeriesDates ==
    (AppServing /\ run.reads > 0 /\ Len(prices_file.rows) >= 2
        /\ PositivePrices(prices_file.rows)) =>
        LET dates == ReturnDates(run.preprocessed_df)
        IN  /\ run.model_len = Len(prices_file.rows) - 1
            /\ Len(dates) = Len(prices_file.rows) - 1
            /\ \A i \in DOMAIN dates : dates[i] = SortedDate(prices_file.rows, i)

\* C9: with positive prices on five consecutive dates D0..D4 and a tau
\* estimate of 2, change_point_date is D3, whatever the event catalog.
C9_ScenarioDate ==
    (Ready /\ Len(prices_file.rows) = 5 /\ PositivePrices(prices_file.rows)
        /\ run.tau_post_mean_idx = 2) =>
        run.ret.model_results.change_point_date
            = Strftime(SortedDate(prices_file.rows, 3))

\* the positions of the catalog's events within 30 days of the date cpd
Within30(cat, cpd) ==
    {i \in DOMAIN cat :
        cpd - 30 <= cat[i].Approximate_Date /\ cat[i].Approximate_Date <= cpd + 30}

\* C10: relevant_events holds exactly the catalog's events dated within 30
\* days of change_point_date, both ends included, once each; the selection
\* never fails a run whose date lookup succeeded, so an empty catalog or no
\* match gives an empty list in a ready run.  In both pipelines.
C10_WindowInclusive ==
    /\ Ready =>
          LET cpd == ParseDate(run.ret.model_results.change_point_date)
              rel == run.ret.relevant_events
              cat == events_file.rows
          IN  /\ \A i \in DOMAIN cat :
                    (\E j \in DOMAIN rel :
                        /\ rel[j].Event_Name = cat[i].Event_Name
                        /\ rel[j].Description = cat[i].Description
                        /\ ParseDate(rel[j].Date) = cat[i].Approximate_Date)
                    <=> i \in Within30(cat, cpd)
              /\ Len(rel) = Cardinality(Within30(cat, cpd))
    /\ LibraryReady =>
          LET cpd == ParseDate(results.model_results.change_point_date)
              rel == results.relevant_events
              cat == events_file.rows
          IN  /\ \A i \in DOMAIN cat :
                    (\E j \in DOMAIN rel :
                        /\ rel[j].Event_Name = cat[i].Event_Name
                        /\ rel[j].Description = cat[i].Description
                        /\ rel[j].Date = cat[i].Approximate_Date)
                    <=> i \in Within30(cat, cpd)
              /\ Len(rel) = Cardinality(Within30(cat, cpd))
    /\ (AppServing /\ run.sample_calls = 1 /\ run.trace.raised = NoException
            /\ run.trace.tau # <<>>
            /\ InRange(run.tau_post_mean_idx, run.model_len)) => Ready

C10_Witness ==
    /\ Ready
    /\ LET cpd == ParseDate(run.ret.model_results.change_point_date)
           cat == events_file.rows
       IN  /\ \E i \in DOMAIN cat : cat[i].Approximate_Date = cpd - 30
           /\ \E i \in DOMAIN cat : cat[i].Approximate_Date = cpd + 31
           /\ Len(run.ret.relevant_events) = 1

\* the place in the events file of the event named name
CatalogPosition(name) ==
    CHOOSE k \in DOMAIN events_file.rows : events_file.rows[k].Event_Name = name

\* rel, with dates read by DateOf, ascends by date, equal dates in file order
AscendingStable(rel, DateOf(_)) ==
    \A i, j \in DOMAIN rel :
        i < j =>
            /\ DateOf(rel[i]) <= DateOf(rel[j])
            /\ DateOf(rel[i]) = DateOf(rel[j]) =>
                   CatalogPosition(rel[i].Event_Name) < CatalogPosition(rel[j].Event_Name)

\* C11: relevant_events is ordered ascending by event date, events of one
\* date in the order of the catalog, whatever the order of the catalog; in
\* the dashboard pipeline and in the library pipeline.
C11_EventsAscendingStable ==
    /\ Ready =>
          LET DateOf(e) == ParseDate(e.Date)
          IN  AscendingStable(run.ret.relevant_events, DateOf)
    /\ LibraryReady =>
          LET DateOf(e) == e.Date
          IN  AscendingStable(results.relevant_events, DateOf)

RawPriceRecords(rows, n) ==
    /\ Len(rows) = n
    /\ \A i \in DOMAIN rows : DOMAIN rows[i] = {"Date", "Price"}

\* C12: after preprocess_data the price table that load_data returned still
\* holds all N records with the fields Date and Price only, the event table
\* is as it was read, and the run publishes N records {Date, Price} as
\* prices_raw (stated of the ready runs).
C12_InputsNotMutated ==
    Ready =>
        /\ RawPriceRecords(run.prices_raw_df.rows, Len(prices_file.rows))
        /\ run.events_raw_df.rows = events_file.rows
        /\ RawPriceRecords(run.ret.prices_raw, Len(prices_file.rows))

\* C13: when a price of the price file is zero or negative, the run ends
\* Failed and the sampler is never invoked: no run over such a file reaches
\* Ready, and no row is dropped in silence to let it.
C13_NonPositivePriceFails ==
    (AppServing /\ prices_file.exists /\ events_file.exists
                /\ ~PositivePrices(prices_file.rows)) =>
        /\ Failed
        /\ run.sample_calls = 0

\* C14: when the price file holds 0, 1 or 2 records, so that the return
\* series has fewer than 2 observations, the run fails before the model is
\* built: no model, no call of the sampler, and the run ends Failed.
C14_ShortSeriesFails ==
    (AppServing /\ prices_file.exists /\ events_file.exists
                /\ Len(prices_file.rows) <= 2) =>
        /\ Failed
        /\ run.model_len = NotBuilt
        /\ run.sample_calls = 0

\* C15: once the startup run has ended, Ready or Failed, no step changes
\* what is published: a GET /api/all_data request leaves analysis_data as it
\* was, a Ready run stays Ready and a Failed run stays Failed, and every
\* response so far carries the same payload, the published dictionary.
C15_PublishedStateFrozen ==
    [][AppServing =>
          /\ analysis_data' = analysis_data
          /\ Ready <=> Ready'
          /\ Failed <=> Failed'
          /\ \A i \in DOMAIN responses' :
                 responses'[i].body = Jsonify(analysis_data)]_vars

C15_Witness ==
    /\ AppServing /\ Len(responses) >= 2
    /\ responses[1].body = responses[2].body
    /\ "error" \in DOMAIN analysis_data
    /\ run.raised.kind # "InferenceFailure"

\* the events of rel as <<date, name>> pairs, dates read by DateOf
EventSequence(rel, DateOf(_)) ==
    [i \in DOMAIN rel |-> <<DateOf(rel[i]), rel[i].Event_Name>>]

\* C16: on the same price file, events file and posterior draws (positive
\* prices, the draws within the series), the dashboard pipeline and the
\* library pipeline report the same change_point_date and the same sequence
\* of relevant_events.
C16_PipelinesAgree ==
    (LibraryReady /\ PositivePrices(prices_file.rows)
                  /\ DrawsInRange(results.model_results.tau_samples,
                                  Len(results.preprocessed_df))) =>
        LET app == run_full_analysis_and_serialize(prices_file, events_file, run.trace)
            AppDate(e) == ParseDate(e.Date)
            LibDate(e) == e.Date
        IN  /\ app.raised = NoException
            /\ app.ret.model_results.change_point_date
                   = results.model_results.change_point_date
            /\ EventSequence(app.ret.relevant_events, AppDate)
                   = EventSequence(results.relevant_events, LibDate)

====
